---- MODULE Spec2Model ----
(***************************************************************************)
(* Model of rancher/resource_rancher_host.go: the Create, Read, Update and *)
(* Delete entry points of the rancher_host resource, their two poll        *)
(* refresh closures (findHost, HostStateRefreshFunc), the read-only label  *)
(* policy, and the remote Rancher API they talk to.                        *)
(*                                                                         *)
(* One action is one remote call together with the local code that runs   *)
(* up to the next remote call; the remote side changes between the calls.  *)
(***************************************************************************)
EXTENDS Naturals, Sequences, FiniteSets, TLC

\* ------------------------------------------------------------------ bounds

\* Most host records the remote ever registers in one behaviour.
MaxHosts == 2

\* ---------------------------------------------------------------- constants

\* Go's nil, as a label value (map lookup of a missing key) .
Nil == "<nil>"

\* var roLabels
roLabels ==
  << "io.rancher.host.agent_image",
     "io.rancher.host.docker_version",
     "io.rancher.host.kvm",
     "io.rancher.host.linux_kernel_version" >>

RoSet == { roLabels[i] : i \in 1..Len(roLabels) }

\* A label key that is not reserved.
UserKey == "role"

LabelKeys == RoSet \cup {UserKey}

\* Statuses a remote host record can show.
Statuses ==
  { "registering", "activating", "active", "disconnected", "deactivating",
    "inactive", "removing", "removed", "purged" }

\* NotFoundChecks of a StateChangeConf that leaves it unset (Delete's waits).
DefaultNotFoundChecks == 20

\* StateChangeConf of Create: Pending, Target, NotFoundChecks.
CreatePending ==
  {"active", "removed", "removing", "not found", "registering", "activating"}

CreateTargetNoActive == {"disconnected"}

CreateTarget == {"active", "disconnected"}

NotFoundChecksUnset == DefaultNotFoundChecks

NotFoundChecks == 50

\* StateChangeConf of Delete's wait for deactivation.
DeactivatePending == {"active", "inactive", "deactivating"}

DeactivateTargetActive == {"active", "inactive"}

DeactivateTarget == {"inactive"}

\* StateChangeConf of Delete's wait for removal.
RemovePendingPurged == {"inactive", "removed", "removing", "purged"}

RemovePending == {"inactive", "removed", "removing"}

RemoveTargetRemoving == {"removed", "removing"}

RemoveTarget == {"removed"}

\* removed(state): the states Read treats as "the host is gone".
removed(state) == state \in {"removed", "purged"}

\* ----------------------------------------------------------------- labels

\* m[k] of a Go map: nil for a missing key.
Lookup(m, k) == IF k \in DOMAIN m THEN m[k] ELSE Nil

\* m[k] = v of a Go map.
MapSet(m, k, v) == [x \in (DOMAIN m) \cup {k} |-> IF x = k THEN v ELSE m[x]]

\* delete(m, k) of a Go map.
MapDelete(m, k) == [x \in (DOMAIN m) \ {k} |-> m[x]]

\* Read: for _, lbl := range roLabels { delete(labels, lbl) }
RECURSIVE DeleteRo(_, _)
DeleteRo(labels, i) ==
  IF i > Len(roLabels) THEN labels
  ELSE DeleteRo(MapDelete(labels, roLabels[i]), i + 1)

ReadLabelsUnfiltered(hostLabels) == hostLabels

\* The value Read hands to d.Set("labels", ...): labels aliases host.Labels,
\* so the deletions are seen through host.Labels.
ReadLabels(hostLabels) == DeleteRo(hostLabels, 1)

\* Update: for _, lbl := range roLabels { labels[lbl] = host.Labels[lbl] }
RECURSIVE MergeRo(_, _, _)
MergeRo(labels, hostLabels, i) ==
  IF i > Len(roLabels) THEN labels
  ELSE MergeRo(MapSet(labels, roLabels[i], Lookup(hostLabels, roLabels[i])),
               hostLabels, i + 1)

UpdateLabelsKeepUser(labels, hostLabels) ==
  [k \in (DOMAIN labels) \cup RoSet |->
     IF k \in DOMAIN labels THEN labels[k] ELSE Lookup(hostLabels, k)]

UpdateLabelsOfHost(labels, hostLabels) == MergeRo(hostLabels, hostLabels, 1)

\* The labels entry of the data map Update sends.
UpdateLabels(labels, hostLabels) == MergeRo(labels, hostLabels, 1)

\* ------------------------------------------------------------ poll loop

\* One iteration of StateChangeConf.WaitForState after Refresh returned
\* (resNil, state, err), with notfoundTick = tick before it:
\*   a refresh error fails the wait; a nil result counts as not found and
\*   fails the wait once more than notFoundChecks came in a row; a result
\*   resets the count, ends the wait when its state is a target, lets it go
\*   on when its state is pending, and fails it otherwise.
WaitForState(pending, target, notFoundChecks, resNil, state, err, tick) ==
  IF err THEN [verdict |-> "fail", cause |-> "refresh", tick |-> tick]
  ELSE IF resNil THEN
    IF tick + 1 > notFoundChecks
      THEN [verdict |-> "fail", cause |-> "not found", tick |-> tick + 1]
      ELSE [verdict |-> "continue", cause |-> "", tick |-> tick + 1]
  ELSE IF state \in target THEN [verdict |-> "done", cause |-> "", tick |-> 0]
  ELSE IF state \in pending THEN [verdict |-> "continue", cause |-> "", tick |-> 0]
  ELSE [verdict |-> "fail", cause |-> "unexpected state", tick |-> 0]

\* ------------------------------------------------------------------ state

VARIABLES
  hosts,    \* the remote's host records, in the order Host.List returns them
  nextId,   \* number of host records the remote has registered so far
  config,   \* the user's configuration of the resource
  d,        \* *schema.ResourceData: the local record
  pc,       \* where the running operation stands ("idle": none is running)
  entry,    \* the entry point the framework called last
  host,     \* the local variable host of Update and Delete
  data,     \* the labels entry of the data map Update built
  tick,     \* notfoundTick of the running wait
  ret,      \* what the last operation returned
  obs,      \* the last step, if it was a poll refresh: "seen" (the remote
            \* answered), "error" (its remote call failed); else "none"
  log       \* what the running operation has done so far

vars == <<hosts, nextId, config, d, pc, entry, host, data, tick, ret, obs, log>>

Hostnames == {"web", "db"}

HostId(i) == "1h" \o ToString(i)

\* A nil *rancher.Host.
NoHost ==
  [id |-> "", hostname |-> "", state |-> "", name |-> "", description |-> "",
   labels |-> << >>]

\* Label maps of the lifecycle specification: what the remote gives a record it
\* registers, what the user configures.
RegisteredLabels == [k \in {roLabels[1], UserKey} |-> "remote"]

ConfiguredLabels == [k \in {roLabels[1], roLabels[2], UserKey} |-> "user"]

NoObs == "none"

NewLog(id) ==
  [update |-> FALSE, deactivate |-> FALSE, delete |-> FALSE,
   sawInactive |-> FALSE, sawRemoved |-> FALSE, remoteErr |-> FALSE,
   id0 |-> id, state0 |-> ""]

NoRet == [kind |-> "none", msg |-> "", subject |-> "", cause |-> ""]
Ok == [kind |-> "ok", msg |-> "", subject |-> "", cause |-> ""]
Panic == [kind |-> "panic", msg |-> "", subject |-> "", cause |-> "nil pointer dereference"]

\* return err
RawError(cause) == [kind |-> "error", msg |-> "", subject |-> "", cause |-> cause]

\* return fmt.Errorf(msg, subject, err)
Errorf(msg, subject, cause) ==
  [kind |-> "error", msg |-> msg, subject |-> subject, cause |-> cause]

Init ==
  /\ hosts = << >>
  /\ nextId = 0
  /\ config = [name |-> "n1", description |-> "d1", hostname |-> "web",
               labels |-> ConfiguredLabels]
  /\ d = [id |-> "", name |-> config.name, description |-> config.description,
          hostname |-> config.hostname, labels |-> config.labels]
  /\ pc = "idle"
  /\ entry = "none"
  /\ host = NoHost
  /\ data = << >>
  /\ tick = 0
  /\ ret = NoRet
  /\ obs = NoObs
  /\ log = NewLog("")

\* ----------------------------------------------------------------- remote

\* Index of the record with this id in the remote's list, 0 when there is none.
IndexOf(id) ==
  IF \E i \in 1..Len(hosts) : hosts[i].id = id
    THEN CHOOSE i \in 1..Len(hosts) : hosts[i].id = id
    ELSE 0

\* client.Host.ById(id) without error: the record, or nil when there is none.
ById(id) == IF IndexOf(id) = 0 THEN NoHost ELSE hosts[IndexOf(id)]

\* The remote changes on its own while an operation runs. Between operations
\* nothing reads the remote, so what it does then is taken right after the
\* next operation has begun; after a panic nothing reads it any more.
RemoteMayStep == pc \notin {"idle", "crashed"}

\* A host agent registers: a new record appears at the end of the list.
RemoteRegister ==
  /\ RemoteMayStep
  /\ nextId < MaxHosts
  /\ \E hn \in Hostnames :
       hosts' = Append(hosts,
                  [id |-> HostId(nextId + 1), hostname |-> hn,
                   state |-> "registering", name |-> "", description |-> "",
                   labels |-> RegisteredLabels])
  /\ nextId' = nextId + 1
  /\ obs' = NoObs
  /\ UNCHANGED <<config, d, pc, entry, host, data, tick, ret, log>>

\* The remote moves a record to another status.
RemoteSetState ==
  /\ RemoteMayStep
  /\ \E i \in 1..Len(hosts), st \in Statuses :
       /\ hosts[i].hostname = config.hostname
       /\ st # hosts[i].state
       /\ hosts' = [hosts EXCEPT ![i].state = st]
  /\ obs' = NoObs
  /\ UNCHANGED <<nextId, config, d, pc, entry, host, data, tick, ret, log>>

\* The remote drops a purged record: ById finds nothing any more.
RemoteForget ==
  /\ RemoteMayStep
  /\ \E i \in 1..Len(hosts) :
       /\ hosts[i].state = "purged"
       /\ hosts' = [j \in 1..(Len(hosts) - 1) |->
                      IF j < i THEN hosts[j] ELSE hosts[j + 1]]
  /\ obs' = NoObs
  /\ UNCHANGED <<nextId, config, d, pc, entry, host, data, tick, ret, log>>

\* -------------------------------------------------------------- operations

\* The framework loads the configuration into d before Create and Update.
Configured(id) ==
  [id |-> id, name |-> config.name, description |-> config.description,
   hostname |-> config.hostname, labels |-> config.labels]

\* The operation returns r; its local variables die with it.
Return(r) ==
  /\ pc' = "idle"
  /\ ret' = r
  /\ host' = NoHost
  /\ data' = << >>
  /\ tick' = 0

\* The operation dereferences a nil *rancher.Host: the plugin panics.
Crash ==
  /\ pc' = "crashed"
  /\ ret' = Panic
  /\ host' = NoHost
  /\ data' = << >>
  /\ tick' = 0

\* meta.(*Config).EnvironmentClient(...) and "if err != nil { return err }":
\* on to pc next when there is a client.
EnvironmentClient(next) ==
  \E err \in BOOLEAN :
    IF err
      THEN /\ Return(RawError("client"))
           /\ log' = [log EXCEPT !.remoteErr = TRUE]
      ELSE /\ pc' = next
           /\ UNCHANGED <<ret, host, data, tick, log>>

\* ------------------------------------------------------------------ Create

CreateWaitErrorNoName(hostname, waitErr) ==
  Errorf("Error waiting for host to be found", "", waitErr)

\* fmt.Errorf("Error waiting for host (%s) to be found: %s", hostname, waitErr)
CreateWaitError(hostname, waitErr) ==
  Errorf("Error waiting for host to be found", hostname, waitErr)

\* fmt.Errorf("Error waiting for host (%s) to be removed: %s", id, waitErr),
\* the message of both waits of Delete.
DeleteWaitError(id, waitErr) ==
  Errorf("Error waiting for host to be removed", id, waitErr)

CreateSetIdHostname(dd, h) == [dd EXCEPT !.id = h.hostname]

\* d.SetId(host.(rancher.Host).Id)
CreateSetId(dd, h) == [dd EXCEPT !.id = h.id]

\* The framework calls Create for a resource that has no id yet.
CreateBegin ==
  /\ pc = "idle"
  /\ d.id = ""
  /\ pc' = "c_client"
  /\ entry' = "create"
  /\ d' = Configured("")
  /\ ret' = NoRet
  /\ obs' = NoObs
  /\ log' = NewLog("")
  /\ UNCHANGED <<hosts, nextId, config, host, data, tick>>

CreateClient ==
  /\ pc = "c_client"
  /\ EnvironmentClient("c_wait")
  /\ obs' = NoObs
  /\ UNCHANGED <<hosts, nextId, config, d, entry>>

\* The closure findHost returns, on the list Host.List gave: the first record
\* with the hostname, or (nil, "not found").
findHost(list, hostname) ==
  IF \E i \in 1..Len(list) : list[i].hostname = hostname
    THEN LET i == CHOOSE i \in 1..Len(list) :
                    /\ list[i].hostname = hostname
                    /\ \A j \in 1..(i - 1) : list[j].hostname # hostname
         IN [res |-> list[i], nil |-> FALSE, state |-> list[i].state]
    ELSE [res |-> NoHost, nil |-> TRUE, state |-> "not found"]

\* One refresh of Create's wait and what WaitForState and Create make of it.
\* The error of Host.List is dropped ("hosts, _ :="): the list is then empty.
CreateRefresh ==
  /\ pc = "c_wait"
  /\ \E listErr \in BOOLEAN :
       LET list == IF listErr THEN << >> ELSE hosts
           r == findHost(list, d.hostname)
           w == WaitForState(CreatePending, CreateTarget, NotFoundChecks,
                             r.nil, r.state, FALSE, tick)
       IN /\ obs' = IF listErr THEN "error" ELSE "seen"
          /\ log' = [log EXCEPT !.remoteErr = @ \/ listErr]
          /\ CASE w.verdict = "done" ->
                    /\ d' = CreateSetId(d, r.res)
                    /\ pc' = "u_client"
                    /\ tick' = 0
                    /\ UNCHANGED <<ret, host, data>>
               [] w.verdict = "continue" ->
                    /\ tick' = w.tick
                    /\ UNCHANGED <<d, pc, ret, host, data>>
               [] OTHER ->
                    /\ Return(CreateWaitError(d.hostname, w.cause))
                    /\ UNCHANGED d
  /\ UNCHANGED <<hosts, nextId, config, entry>>

\* The Timeout of the running wait elapses.
WaitTimeout ==
  /\ pc \in {"c_wait", "d_wait1", "d_wait2"}
  /\ Return(IF pc = "c_wait"
              THEN CreateWaitError(d.hostname, "timeout")
              ELSE DeleteWaitError(log.id0, "timeout"))
  /\ obs' = "timeout"
  /\ UNCHANGED <<hosts, nextId, config, d, entry, log>>

\* ------------------------------------------------------------------ Update

\* The framework calls Update for a resource that has an id.
UpdateBegin ==
  /\ pc = "idle"
  /\ d.id # ""
  /\ pc' = "u_client"
  /\ entry' = "update"
  /\ d' = Configured(d.id)
  /\ ret' = NoRet
  /\ obs' = NoObs
  /\ log' = NewLog(d.id)
  /\ UNCHANGED <<hosts, nextId, config, host, data, tick>>

UpdateClient ==
  /\ pc = "u_client"
  /\ EnvironmentClient("u_get")
  /\ obs' = NoObs
  /\ UNCHANGED <<hosts, nextId, config, d, entry>>

\* host, err := client.Host.ById(d.Id()), then the merge of the read-only
\* labels, which reads host.Labels without a nil check.
UpdateGet ==
  /\ pc = "u_get"
  /\ \E err \in BOOLEAN :
       IF err
         THEN /\ Return(RawError("byid"))
              /\ log' = [log EXCEPT !.remoteErr = TRUE]
         ELSE IF ById(d.id) = NoHost
           THEN Crash /\ UNCHANGED log
           ELSE /\ host' = ById(d.id)
                /\ data' = UpdateLabels(d.labels, ById(d.id).labels)
                /\ pc' = "u_update"
                /\ UNCHANGED <<ret, tick, log>>
  /\ obs' = NoObs
  /\ UNCHANGED <<hosts, nextId, config, d, entry>>

\* client.Update("host", &host.Resource, data, &newHost): the remote stores
\* name, description and labels of data in the record, or answers an error (it
\* always does when the record is gone); then Update goes on into Read.
UpdateCall ==
  /\ pc = "u_update"
  /\ \E err \in BOOLEAN :
       IF err \/ IndexOf(host.id) = 0
         THEN /\ Return(RawError("update"))
              /\ log' = [log EXCEPT !.remoteErr = TRUE]
              /\ UNCHANGED hosts
         ELSE /\ hosts' = [hosts EXCEPT ![IndexOf(host.id)] =
                             [@ EXCEPT !.name = d.name,
                                       !.description = d.description,
                                       !.labels = data]]
              /\ log' = [log EXCEPT !.update = TRUE]
              /\ pc' = "r_client"
              /\ UNCHANGED <<ret, host, data, tick>>
  /\ obs' = NoObs
  /\ UNCHANGED <<nextId, config, d, entry>>

\* -------------------------------------------------------------------- Read

\* The framework calls Read for a resource that has an id.
ReadBegin ==
  /\ pc = "idle"
  /\ d.id # ""
  /\ pc' = "r_client"
  /\ entry' = "read"
  /\ ret' = NoRet
  /\ obs' = NoObs
  /\ log' = NewLog(d.id)
  /\ UNCHANGED <<hosts, nextId, config, d, host, data, tick>>

ReadClient ==
  /\ pc = "r_client"
  /\ EnvironmentClient("r_get")
  /\ obs' = NoObs
  /\ UNCHANGED <<hosts, nextId, config, d, entry>>

ReadRecordNoRemovedCheck(dd, h) ==
  IF h = NoHost
    THEN [dd EXCEPT !.id = ""]
    ELSE [dd EXCEPT !.description = h.description, !.name = h.name,
                    !.hostname = h.hostname, !.labels = ReadLabels(h.labels)]

\* What Read makes of d when ById answered h without error: d.SetId("") for a
\* missing or removed host, else the four d.Set calls.
ReadRecord(dd, h) ==
  IF h = NoHost \/ removed(h.state)
    THEN [dd EXCEPT !.id = ""]
    ELSE [dd EXCEPT !.description = h.description, !.name = h.name,
                    !.hostname = h.hostname, !.labels = ReadLabels(h.labels)]

\* host, err := client.Host.ById(d.Id()) and the rest of Read.
ReadGet ==
  /\ pc = "r_get"
  /\ \E err \in BOOLEAN :
       IF err
         THEN /\ Return(RawError("byid"))
              /\ log' = [log EXCEPT !.remoteErr = TRUE]
              /\ UNCHANGED d
         ELSE /\ d' = ReadRecord(d, ById(d.id))
              /\ Return(Ok)
              /\ UNCHANGED log
  /\ obs' = NoObs
  /\ UNCHANGED <<hosts, nextId, config, entry>>

\* ------------------------------------------------------------------ Delete

\* The framework calls Delete for a resource that has an id.
DeleteBegin ==
  /\ pc = "idle"
  /\ d.id # ""
  /\ pc' = "d_client"
  /\ entry' = "delete"
  /\ ret' = NoRet
  /\ obs' = NoObs
  /\ log' = NewLog(d.id)
  /\ UNCHANGED <<hosts, nextId, config, d, host, data, tick>>

DeleteClient ==
  /\ pc = "d_client"
  /\ EnvironmentClient("d_get")
  /\ obs' = NoObs
  /\ UNCHANGED <<hosts, nextId, config, d, entry>>

\* if host.State != "inactive"
NeedsDeactivate(h) == h.state # "inactive"

\* host, err := client.Host.ById(id), then host.State without a nil check.
DeleteGet ==
  /\ pc = "d_get"
  /\ \E err \in BOOLEAN :
       IF err
         THEN /\ Return(RawError("byid"))
              /\ log' = [log EXCEPT !.remoteErr = TRUE]
         ELSE IF ById(log.id0) = NoHost
           THEN Crash /\ UNCHANGED log
           ELSE /\ host' = ById(log.id0)
                /\ pc' = IF NeedsDeactivate(ById(log.id0))
                           THEN "d_deactivate" ELSE "d_delete"
                /\ log' = [log EXCEPT !.state0 = ById(log.id0).state]
                /\ UNCHANGED <<ret, data, tick>>
  /\ obs' = NoObs
  /\ UNCHANGED <<hosts, nextId, config, d, entry>>

\* client.Host.ActionDeactivate(host): the remote starts to deactivate the
\* record, or answers an error (it always does when the record is gone).
DeleteDeactivate ==
  /\ pc = "d_deactivate"
  /\ \E err \in BOOLEAN :
       IF err \/ IndexOf(host.id) = 0
         THEN /\ Return(Errorf("Error deactivating Host", "", "deactivate"))
              /\ log' = [log EXCEPT !.remoteErr = TRUE]
              /\ UNCHANGED hosts
         ELSE /\ hosts' = [hosts EXCEPT ![IndexOf(host.id)].state = "deactivating"]
              /\ log' = [log EXCEPT !.deactivate = TRUE]
              /\ pc' = "d_wait1"
              /\ tick' = 0
              /\ UNCHANGED <<ret, host, data>>
  /\ obs' = NoObs
  /\ UNCHANGED <<nextId, config, d, entry>>

\* One refresh of the closure HostStateRefreshFunc returns: ById, its error
\* handed on, then host.State without a nil check. next is where Delete goes
\* on when the wait is done.
HostStateRefresh(wait, pending, target, next) ==
  \E err \in BOOLEAN :
    IF ~err /\ ById(log.id0) = NoHost
      THEN /\ Crash
           /\ obs' = "seen"
           /\ UNCHANGED <<d, log>>
      ELSE
        LET h == ById(log.id0)
            w == WaitForState(pending, target, DefaultNotFoundChecks,
                              FALSE, h.state, err, tick)
        IN /\ obs' = IF err THEN "error" ELSE "seen"
           /\ log' = [log EXCEPT
                        !.remoteErr = @ \/ err,
                        !.sawInactive = @ \/ (~err /\ wait = "deactivate"
                                                   /\ h.state = "inactive"),
                        !.sawRemoved = @ \/ (~err /\ wait = "remove"
                                                  /\ h.state = "removed")]
           /\ CASE w.verdict = "done" ->
                     /\ IF next = "idle"
                          THEN /\ d' = [d EXCEPT !.id = ""]
                               /\ Return(Ok)
                          ELSE /\ pc' = next
                               /\ tick' = 0
                               /\ UNCHANGED <<d, ret, host, data>>
                [] w.verdict = "continue" ->
                     /\ tick' = w.tick
                     /\ UNCHANGED <<d, pc, ret, host, data>>
                [] OTHER ->
                     /\ Return(DeleteWaitError(log.id0, w.cause))
                     /\ UNCHANGED d

\* The wait for the deactivation.
DeleteWaitInactive ==
  /\ pc = "d_wait1"
  /\ HostStateRefresh("deactivate", DeactivatePending, DeactivateTarget, "d_delete")
  /\ UNCHANGED <<hosts, nextId, config, entry>>

\* client.Host.Delete(host): the remote starts to remove the record, or
\* answers an error (it always does when the record is gone).
DeleteCall ==
  /\ pc = "d_delete"
  /\ \E err \in BOOLEAN :
       IF err \/ IndexOf(host.id) = 0
         THEN /\ Return(Errorf("Error deleting Host", "", "delete"))
              /\ log' = [log EXCEPT !.remoteErr = TRUE]
              /\ UNCHANGED hosts
         ELSE /\ hosts' = [hosts EXCEPT ![IndexOf(host.id)].state = "removing"]
              /\ log' = [log EXCEPT !.delete = TRUE]
              /\ pc' = "d_wait2"
              /\ tick' = 0
              /\ UNCHANGED <<ret, host, data>>
  /\ obs' = NoObs
  /\ UNCHANGED <<nextId, config, d, entry>>

\* The wait for the removal; d.SetId("") and "return nil" when it is done.
DeleteWaitRemoved ==
  /\ pc = "d_wait2"
  /\ HostStateRefresh("remove", RemovePending, RemoveTarget, "idle")
  /\ UNCHANGED <<hosts, nextId, config, entry>>

\* ------------------------------------------------------------ specification

Next ==
  \/ RemoteRegister
  \/ RemoteSetState
  \/ RemoteForget
  \/ CreateBegin
  \/ CreateClient
  \/ CreateRefresh
  \/ WaitTimeout
  \/ UpdateBegin
  \/ UpdateClient
  \/ UpdateGet
  \/ UpdateCall
  \/ ReadBegin
  \/ ReadClient
  \/ ReadGet
  \/ DeleteBegin
  \/ DeleteClient
  \/ DeleteGet
  \/ DeleteDeactivate
  \/ DeleteWaitInactive
  \/ DeleteCall
  \/ DeleteWaitRemoved

Spec == Init /\ [][Next]_vars

\* ------------------------------------------------------- label specification

\* Every label map over the reserved keys and one user key.
LabelMaps(values) ==
  UNION { [keys -> values] : keys \in SUBSET LabelKeys }

\* A created resource whose host is active and stays so: every remote label
\* map against every configured label map, under Read and Update.
InitLabels ==
  /\ \E lb \in LabelMaps({"remote"}) :
       hosts = << [id |-> HostId(1), hostname |-> "web", state |-> "active",
                   name |-> "", description |-> "", labels |-> lb] >>
  /\ nextId = 1
  /\ \E lb \in LabelMaps({"user", "remote"}) :
       config = [name |-> "n1", description |-> "d1", hostname |-> "web",
                 labels |-> lb]
  /\ d = Configured(HostId(1))
  /\ pc = "idle"
  /\ entry = "none"
  /\ host = NoHost
  /\ data = << >>
  /\ tick = 0
  /\ ret = NoRet
  /\ obs = NoObs
  /\ log = NewLog("")

NextLabels ==
  \/ UpdateBegin
  \/ UpdateClient
  \/ UpdateGet
  \/ UpdateCall
  \/ ReadBegin
  \/ ReadClient
  \/ ReadGet

SpecLabels == InitLabels /\ [][NextLabels]_vars

\* -------------------------------------------------------------- properties

\* The remote record the running (or last) operation is about.
Managed == ById(log.id0)

\* C1: in Delete the delete call is issued only once the host has been seen
\* inactive: a host fetched in another status gets a deactivate call and a poll
\* of the first wait sees it inactive before the delete call; a host fetched
\* inactive gets no deactivate call. Delete succeeds only after the delete call
\* and a poll of the second wait that saw the host removed.
C1_DeleteOnlyAfterInactive ==
  entry = "delete" =>
    /\ (pc = "d_delete" \/ log.delete) =>
         IF log.state0 = "inactive"
           THEN ~log.deactivate
           ELSE log.deactivate /\ log.sawInactive
    /\ log.deactivate => log.state0 \notin {"", "inactive"}
    /\ (pc = "d_wait2" \/ log.sawRemoved) => log.delete
    /\ (pc = "idle" /\ ret = Ok) => log.delete /\ log.sawRemoved

C1_Witness ==
  /\ entry = "delete" /\ pc = "idle" /\ ret = Ok
  /\ log.state0 = "active" /\ log.deactivate /\ log.sawInactive
  /\ log.delete /\ log.sawRemoved

\* C2: after a Read that returns success for a host that exists and is not
\* removed, the local labels hold none of the four reserved keys and hold every
\* other label of the remote record with its remote value.
C2_ReadHidesReservedLabels ==
  (pc = "idle" /\ entry \in {"read", "update"} /\ ret = Ok /\ d.id # "") =>
    /\ \A i \in 1..Len(roLabels) : roLabels[i] \notin DOMAIN d.labels
    /\ \A k \in DOMAIN ById(d.id).labels :
         k \notin RoSet => k \in DOMAIN d.labels /\ d.labels[k] = ById(d.id).labels[k]

C2_Witness ==
  /\ pc = "idle" /\ entry = "read" /\ ret = Ok /\ d.id # ""
  /\ DOMAIN ById(d.id).labels = LabelKeys
  /\ DOMAIN d.labels = {UserKey}

\* C3: the labels Update sends hold each of the four reserved keys with the
\* value the fetched host held for it (nil for a key it did not hold), whatever
\* the user configured for that key; so the remote record holds the same value
\* for each reserved key after the update call as before it.
C3_UpdateKeepsReservedLabels ==
  /\ pc = "u_update" =>
       \A i \in 1..Len(roLabels) :
         /\ roLabels[i] \in DOMAIN data
         /\ data[roLabels[i]] = Lookup(host.labels, roLabels[i])
  /\ (pc \in {"r_client", "r_get"} /\ log.update /\ ById(host.id) # NoHost) =>
       \A i \in 1..Len(roLabels) :
         Lookup(ById(host.id).labels, roLabels[i]) = Lookup(host.labels, roLabels[i])

C3_Witness ==
  /\ pc = "r_client" /\ log.update
  /\ Lookup(config.labels, roLabels[1]) = "user"
  /\ Lookup(host.labels, roLabels[1]) = "remote"
  /\ Lookup(ById(host.id).labels, roLabels[1]) = "remote"
  /\ Lookup(config.labels, roLabels[2]) = "user"
  /\ roLabels[2] \notin DOMAIN host.labels

\* The first record of the remote's list with the configured hostname is i.
FirstWithHostname(i) ==
  /\ i \in 1..Len(hosts)
  /\ hosts[i].hostname = config.hostname
  /\ \A j \in 1..(i - 1) : hosts[j].hostname # config.hostname

\* C4: a refresh that observes a target status ends the wait successfully. In
\* Create, an observed host with the configured hostname in status active or
\* disconnected ends the wait and its id becomes the local id; in Delete, an
\* observed inactive ends the deactivation wait and an observed removed ends
\* the removal wait (and Delete).
C4_TargetEndsWait ==
  [][ obs' = "seen" =>
        /\ (pc = "c_wait") =>
             \A i \in 1..Len(hosts) :
               (FirstWithHostname(i) /\ hosts[i].state \in {"active", "disconnected"})
                 => pc' = "u_client" /\ d'.id = hosts[i].id
        /\ (pc = "d_wait1" /\ Managed # NoHost /\ Managed.state = "inactive")
             => pc' = "d_delete"
        /\ (pc = "d_wait2" /\ Managed # NoHost /\ Managed.state = "removed")
             => pc' = "idle" /\ ret' = Ok
    ]_vars

C4_Witness ==
  /\ entry = "create" /\ pc = "u_client" /\ obs = "seen"
  /\ d.id # "" /\ ById(d.id).state = "active"

\* C5: a wait whose timeout elapses fails, and the operation returns a failure
\* without going on: Create's error names the hostname, the local id stays
\* empty and Update is not called; Delete's error names the host id, the local
\* id stays as it was, and no delete call follows a timed-out deactivation
\* wait.
C5_TimeoutFailsOperation ==
  [][ obs' = "timeout" =>
        /\ pc' = "idle"
        /\ ret'.kind = "error"
        /\ ret'.cause = "timeout"
        /\ (pc = "c_wait") =>
             /\ ret'.subject = config.hostname
             /\ d'.id = ""
             /\ ~log'.update
        /\ (pc \in {"d_wait1", "d_wait2"}) =>
             /\ ret'.subject = log.id0
             /\ d'.id = log.id0
             /\ d'.id # ""
        /\ (pc = "d_wait1") => ~log'.delete
    ]_vars

C5_Witness ==
  /\ obs = "timeout" /\ entry = "delete" /\ pc = "idle"
  /\ log.deactivate /\ ~log.delete /\ ret.subject = d.id

\* C6: a Read whose lookup finds no record, or a record in a removed status,
\* clears the local id, returns success and writes none of name, description,
\* hostname, labels.
C6_ReadClearsMissing ==
  [][ (/\ pc = "r_get" /\ pc' # "r_get"
       /\ ~(ret'.kind = "error" /\ ret'.cause = "byid")
       /\ (ById(d.id) = NoHost \/ ById(d.id).state \in {"removed", "purged"}))
      => /\ pc' = "idle"
         /\ ret' = Ok
         /\ d' = [d EXCEPT !.id = ""]
    ]_vars

C6_Witness ==
  /\ entry = "read" /\ pc = "idle" /\ ret = Ok /\ d.id = ""
  /\ Managed # NoHost /\ Managed.state = "removed"
  /\ Managed.name # d.name

\* No record of the remote's list has the configured hostname.
NoneWithHostname == \A i \in 1..Len(hosts) : hosts[i].hostname # config.hostname

\* C7: in Create's wait a refresh that finds no host with the hostname is a
\* not-found observation: the wait goes on, and gives up for not-found only
\* with the 51st such observation in a row; a refresh that finds the host puts
\* the count back to 0.
C7_CreateToleratesNotFound ==
  [][ (pc = "c_wait" /\ obs' \in {"seen", "error"}) =>
        /\ (obs' = "error" \/ NoneWithHostname) =>
             IF tick + 1 > 50
               THEN pc' = "idle" /\ ret'.kind = "error" /\ ret'.cause = "not found"
               ELSE pc' = "c_wait" /\ tick' = tick + 1
        /\ (obs' = "seen" /\ ~NoneWithHostname) => tick' = 0
    ]_vars

C7_Witness ==
  /\ entry = "create" /\ pc = "idle"
  /\ ret.kind = "error" /\ ret.cause = "not found" /\ ret.subject = config.hostname

\* C8: every error of a remote client call makes the operation return a
\* failure: an operation in which a remote call failed does not return success.
C8_RemoteErrorsFail ==
  (pc = "idle" /\ log.remoteErr) => ret.kind = "error"

\* C9: an Update or Delete whose lookup by id finds no record (no host, no
\* error) issues no mutating call, clears the local id and returns success.
C9_MissingHostIsNoError ==
  [][ (/\ pc \in {"u_get", "d_get"} /\ pc' # pc
       /\ ~(ret'.kind = "error" /\ ret'.cause = "byid")
       /\ ById(d.id) = NoHost)
      => /\ pc' = "idle"
         /\ ret' = Ok
         /\ d'.id = ""
         /\ ~log'.update /\ ~log'.deactivate /\ ~log'.delete
    ]_vars

\* C10: in Delete's waits a refresh whose lookup finds no record is a pending
\* not-found observation: the wait goes on, or ends as a failed wait once the
\* not-found observations in a row exceed the bound; Delete does not crash.
C10_DeleteToleratesNotFound ==
  [][ (pc \in {"d_wait1", "d_wait2"} /\ obs' = "seen" /\ Managed = NoHost) =>
        \/ pc' = pc /\ tick' = tick + 1
        \/ pc' = "idle" /\ ret'.kind = "error" /\ ret'.cause = "not found"
    ]_vars

\* ------------------------------------------------------------ termination

\* A step of the running operation's own code, the timeout aside.
OperationStep ==
  \/ CreateClient
  \/ CreateRefresh
  \/ UpdateClient
  \/ UpdateGet
  \/ UpdateCall
  \/ ReadClient
  \/ ReadGet
  \/ DeleteClient
  \/ DeleteGet
  \/ DeleteDeactivate
  \/ DeleteWaitInactive
  \/ DeleteCall
  \/ DeleteWaitRemoved

\* The operations are synchronous code: a running operation takes its next
\* step, and the Timeout of a wait (10 minutes) elapses unless the wait ends
\* before.
SpecFair == Spec /\ WF_vars(OperationStep) /\ WF_vars(WaitTimeout)

\* C11: every invocation of Create, Read, Update and Delete eventually returns
\* to the framework, whatever the remote answers.
C11_EveryInvocationReturns == (pc # "idle") ~> (pc = "idle")

\* Apart from the panics on a nil host, every invocation does end.
EveryInvocationEnds == (pc # "idle") ~> (pc \in {"idle", "crashed"})

\* C12: Delete clears the local id only after the delete call and a later
\* poll that saw the host removed; when Delete returns a failure the local id
\* is the one Delete started with.
C12_DeleteKeepsIdUntilRemoved ==
  entry = "delete" =>
    /\ d.id # log.id0 =>
         /\ d.id = ""
         /\ log.delete /\ log.sawRemoved
         /\ pc = "idle" /\ ret = Ok
    /\ (pc = "idle" /\ ret.kind = "error") => d.id = log.id0 /\ d.id # ""

C12_Witness ==
  /\ entry = "delete" /\ pc = "idle"
  /\ ret.kind = "error" /\ ret.cause = "unexpected state"
  /\ log.delete /\ ~log.sawRemoved
  /\ d.id = log.id0 /\ d.id # ""

\* C13 as claimed: Create leaves a non-empty local id exactly when it returns
\* success, and the id is then the id of a remote host with the configured
\* hostname.
C13_IdExactlyOnSuccess ==
  (entry = "create" /\ pc = "idle" /\ ret.kind \in {"ok", "error"}) =>
    /\ (ret = Ok) <=> (d.id # "")
    /\ (ret = Ok) => /\ ById(d.id) # NoHost
                     /\ ById(d.id).hostname = config.hostname

\* C13, amended: the id Create sets after its wait is the id of a remote host
\* with the configured hostname. A Create that fails before or in its wait
\* leaves the local id empty; one that fails in the Update or Read it runs
\* after the wait keeps the id it set; one that returns success keeps that id,
\* or has an empty id when its final Read found the host missing or removed.
C13_CreateIdAfterReturn ==
  [][ (entry = "create" /\ pc # "idle") =>
        /\ (pc = "c_wait" /\ pc' = "u_client") =>
             /\ d'.id # ""
             /\ ById(d'.id) # NoHost
             /\ ById(d'.id).hostname = config.hostname
        /\ (pc \in {"c_client", "c_wait"} /\ pc' = "idle") =>
             ret'.kind = "error" /\ d'.id = ""
        /\ (pc \in {"u_client", "u_get", "u_update", "r_client"} /\ pc' = "idle") =>
             ret'.kind = "error" /\ d'.id = d.id /\ d.id # ""
        /\ (pc = "r_get" /\ pc' = "idle") =>
             IF ret'.kind = "error"
               THEN d'.id = d.id /\ d.id # ""
               ELSE /\ ret' = Ok
                    /\ IF ById(d.id) = NoHost
                            \/ ById(d.id).state \in {"removed", "purged"}
                         THEN d'.id = ""
                         ELSE /\ d'.id = d.id
                              /\ ById(d.id).hostname = config.hostname
    ]_vars

C13_Witness ==
  /\ entry = "create" /\ pc = "idle" /\ ret = Ok
  /\ log.update /\ d.id = ""
  /\ \E i \in 1..Len(hosts) :
       hosts[i].hostname = config.hostname /\ hosts[i].state = "removed"

\* The label map m without the four reserved keys.
WithoutReserved(m) == [k \in (DOMAIN m) \ RoSet |-> m[k]]

\* C14: when the remote applies the update and nothing else changes the host,
\* an Update that returns success leaves the local name and description equal
\* to the configured ones and the local labels equal to the configured labels
\* without the four reserved keys.
C14_UpdateReadRoundTrip ==
  (entry = "update" /\ pc = "idle" /\ ret = Ok) =>
    /\ d.id # ""
    /\ d.name = config.name
    /\ d.description = config.description
    /\ d.labels = WithoutReserved(config.labels)

C14_Witness ==
  /\ entry = "update" /\ pc = "idle" /\ ret = Ok
  /\ DOMAIN config.labels = {roLabels[1], roLabels[3], UserKey}
  /\ config.labels[UserKey] = "user"
  /\ d.labels = [k \in {UserKey} |-> "user"]
  /\ Lookup(ById(d.id).labels, roLabels[1]) = "remote"
  /\ Lookup(ById(d.id).labels, roLabels[3]) = Nil
  /\ d.name = "n1" /\ ById(d.id).name = "n1"

\* Record i of the remote's list has the configured hostname and a status
\* Create accepts.
Acceptable(i) ==
  /\ hosts[i].hostname = config.hostname
  /\ hosts[i].state \in {"active", "disconnected"}

\* Record i is a stale record of the configured hostname.
Stale(i) ==
  /\ hosts[i].hostname = config.hostname
  /\ hosts[i].state \in {"removed", "removing"}

\* C15: a refresh of Create's wait whose list holds a host with the configured
\* hostname in status active or disconnected ends the wait successfully with
\* the id of such a host, whatever else the list holds and in whatever order:
\* records of other hostnames, and records of the same hostname in status
\* removed or removing.
C15_AcceptableHostEndsWait ==
  [][ (/\ pc = "c_wait" /\ obs' = "seen"
       /\ \E i \in 1..Len(hosts) : Acceptable(i)
       /\ \A j \in 1..Len(hosts) :
            hosts[j].hostname = config.hostname => Acceptable(j) \/ Stale(j))
      => /\ pc' = "u_client"
         /\ \E i \in 1..Len(hosts) : Acceptable(i) /\ d'.id = hosts[i].id
    ]_vars

\* ------------------------------------------------- well-behaved remote

\* The status changes of a remote that behaves: a registered host becomes
\* active, an active host may lose and regain its connection, a deactivate
\* call is followed through to inactive, a delete call to removed, and a
\* removed record may be purged.
Lifecycle ==
  { <<"registering", "activating">>, <<"activating", "active">>,
    <<"active", "disconnected">>, <<"disconnected", "active">>,
    <<"deactivating", "inactive">>,
    <<"removing", "removed">>, <<"removed", "purged">> }

RemoteLifecycle ==
  /\ RemoteMayStep
  /\ \E i \in 1..Len(hosts), st \in Statuses :
       /\ hosts[i].hostname = config.hostname
       /\ <<hosts[i].state, st>> \in Lifecycle
       /\ hosts' = [hosts EXCEPT ![i].state = st]
  /\ obs' = NoObs
  /\ UNCHANGED <<nextId, config, d, pc, entry, host, data, tick, ret, log>>

\* No remote call of the running operation has returned an error.
NoError == ~log'.remoteErr

\* The operations against a remote that behaves and returns no errors, with
\* no timeout firing.
NextLifecycle ==
  \/ RemoteRegister
  \/ RemoteLifecycle
  \/ CreateBegin
  \/ CreateClient /\ NoError
  \/ CreateRefresh /\ NoError
  \/ UpdateBegin
  \/ UpdateClient /\ NoError
  \/ UpdateGet /\ NoError
  \/ UpdateCall /\ NoError
  \/ ReadBegin
  \/ ReadClient /\ NoError
  \/ ReadGet /\ NoError
  \/ DeleteBegin
  \/ DeleteClient /\ NoError
  \/ DeleteGet /\ NoError
  \/ DeleteDeactivate /\ NoError
  \/ DeleteWaitInactive /\ NoError
  \/ DeleteCall /\ NoError
  \/ DeleteWaitRemoved /\ NoError

SpecLifecycle == Init /\ [][NextLifecycle]_vars

\* C16: a Delete that starts on a host in status active or disconnected, with
\* a remote that behaves, returns no errors and lets no timeout fire, returns
\* success with the local id cleared.
C16_AcceptedHostCanBeDeleted ==
  (entry = "delete" /\ pc \in {"idle", "crashed"}
     /\ log.state0 \in {"active", "disconnected"})
    => ret = Ok /\ d.id = ""

\* The step fails the running wait for an unexpected status and returns.
FailsUnexpected ==
  /\ pc' = "idle"
  /\ ret'.kind = "error"
  /\ ret'.cause = "unexpected state"

\* C17: a refresh that observes an existing host in a status that is neither
\* pending nor a target of the wait fails the wait at once, and the operation
\* returns a failure.
C17_UnexpectedStatusFailsWait ==
  [][ obs' = "seen" =>
        /\ (pc = "c_wait") =>
             \A i \in 1..Len(hosts) :
               (/\ FirstWithHostname(i)
                /\ hosts[i].state \notin
                     {"active", "disconnected", "removed", "removing",
                      "registering", "activating"})
                 => /\ FailsUnexpected
                    /\ ret'.subject = config.hostname
                    /\ d'.id = ""
        /\ (/\ pc = "d_wait1" /\ Managed # NoHost
            /\ Managed.state \notin {"active", "inactive", "deactivating"})
             => FailsUnexpected /\ ret'.subject = log.id0 /\ ~log'.delete
        /\ (/\ pc = "d_wait2" /\ Managed # NoHost
            /\ Managed.state \notin {"inactive", "removed", "removing"})
             => FailsUnexpected /\ ret'.subject = log.id0 /\ d'.id = log.id0
    ]_vars

C17_Witness ==
  /\ entry = "delete" /\ pc = "idle" /\ obs = "seen"
  /\ ret.kind = "error" /\ ret.cause = "unexpected state"
  /\ log.deactivate /\ ~log.delete
  /\ Managed # NoHost /\ Managed.state = "disconnected"

====
